---- MODULE Spec2Model ----
(***************************************************************************)
(* The student-update engine of golang-upload-excel: the Lambda handler    *)
(* handleStudentUpdate (token check, JSON decode, role gate) and           *)
(* updateStudent (expiry read, dynamic UPDATE, transaction), over a        *)
(* students table.                                                         *)
(*                                                                         *)
(* The repository holds three copies of the handler, each a `package main` *)
(* of its own, so one deployed binary runs exactly one of them:            *)
(*   "main"   src/main.go and src/unnamed/part_000: the amount-driven      *)
(*            updateStudent behind the role gate.  part_000 is the same    *)
(*            code with getDB() in place of connectDB(), so it behaves as  *)
(*            main.go does when connectDB succeeds;                        *)
(*   "legacy" src/unnamed/part_002: the payment-status updateStudent, no   *)
(*            token check, no role gate, no expiry read.                   *)
(*                                                                         *)
(* Strings that the code compares, lowercases, formats or splices into SQL *)
(* (emails, dates) are sequences of ASCII codes; an optional value (a Go   *)
(* pointer, a nullable column) is <<>> when nil/NULL and <<v>> otherwise.  *)
(***************************************************************************)
EXTENDS Integers, Sequences, FiniteSets, TLC

\* ------------------------------------------------------------------ bounds
\* Calendar years 2024 .. 2024 + YearSpan are modelled (with 2020 and 2099).
YearSpan == 1
\* Payment amounts range over -MaxAmount .. MaxAmount.
MaxAmount == 1
\* Invocations of the handler in one behaviour: 1 .. MaxCalls.
MaxCalls == 4

\* ----------------------------------------------------------------- strings
Code ==
    ("-" :> 45) @@ (":" :> 58) @@ ("@" :> 64) @@ ("T" :> 84) @@ ("Z" :> 90)
    @@ ("0" :> 48) @@ ("A" :> 65) @@ ("S" :> 83)
    @@ ("a" :> 97) @@ ("g" :> 103) @@ ("s" :> 115) @@ ("t" :> 116)
    @@ ("u" :> 117) @@ ("x" :> 120)

Chars(s) == [k \in 1..Len(s) |-> Code[s[k]]]

\* strings.ToLower on ASCII text.
ToLower(s) == [k \in 1..Len(s) |-> IF s[k] \in 65..90 THEN s[k] + 32 ELSE s[k]]

\* Go's < on strings: bytewise lexicographic, a proper prefix is smaller.
RECURSIVE StrLess(_, _)
StrLess(a, b) ==
    IF b = <<>> THEN FALSE
    ELSE IF a = <<>> THEN TRUE
    ELSE IF a[1] # b[1] THEN a[1] < b[1]
    ELSE StrLess(Tail(a), Tail(b))

StrGE(a, b) == ~StrLess(a, b)

\* ------------------------------------------------------------------- dates
Leap(y) == (y % 4 = 0 /\ y % 100 # 0) \/ y % 400 = 0

Years == {2020, 2099} \cup (2024 .. 2024 + YearSpan)

MonthDays == {<<1, 1>>, <<2, 28>>, <<2, 29>>, <<6, 1>>, <<10, 15>>}

Dates ==
    {dt \in [y : Years, m : {md[1] : md \in MonthDays},
             d : {md[2] : md \in MonthDays}] :
        /\ <<dt.m, dt.d>> \in MonthDays
        /\ (dt.m = 2 /\ dt.d = 29) => Leap(dt.y)}

\* Calendar order of two dates.
DateLE(a, b) ==
    \/ a.y < b.y
    \/ a.y = b.y /\ a.m < b.m
    \/ a.y = b.y /\ a.m = b.m /\ a.d <= b.d

Digit(n) == 48 + n

Pad2(n) == <<Digit(n \div 10), Digit(n % 10)>>

Pad4(n) ==
    <<Digit(n \div 1000), Digit((n \div 100) % 10), Digit((n \div 10) % 10),
      Digit(n % 10)>>

\* time.Time.Format("2006-01-02").
FormatDate(dt) ==
    Pad4(dt.y) \o <<Code["-"]>> \o Pad2(dt.m) \o <<Code["-"]>> \o Pad2(dt.d)

\* The text Scan hands to a sql.NullString for a sub_exp_date value: the
\* date as the store prints it ("date"), or, when the driver hands over a
\* time.Time, database/sql's RFC 3339 rendering of it ("rfc3339").
ScanStyles == {"date", "rfc3339"}

ScanText(dt, style) ==
    IF style = "rfc3339"
    THEN FormatDate(dt)
         \o Chars(<<"T", "0", "0", ":", "0", "0", ":", "0", "0", "Z">>)
    ELSE FormatDate(dt)

Num(c) == c - 48

\* The store's reading of DATE '<text>': the leading YYYY-MM-DD.
ParseDate(s) ==
    [y |-> 1000 * Num(s[1]) + 100 * Num(s[2]) + 10 * Num(s[3]) + Num(s[4]),
     m |-> 10 * Num(s[6]) + Num(s[7]),
     d |-> 10 * Num(s[9]) + Num(s[10])]

\* The store's <date> + INTERVAL '1 year', kept in a date column: the same
\* month and day a year on, 29 February falling back to the 28th.
AddYear(dt) ==
    [y |-> dt.y + 1, m |-> dt.m,
     d |-> IF dt.m = 2 /\ dt.d = 29 /\ ~Leap(dt.y + 1) THEN 28 ELSE dt.d]

\* ------------------------------------------------------------------ values
\* An optional value: <<>> is nil / NULL / an absent JSON field.
Opt(S) == {<<>>} \cup {<<v>> : v \in S}

\* `p != nil && *p != ""` of the string fields.
NonEmpty(o) == o # <<>> /\ o[1] # ""

SuperEmail == Chars(<<"s", "@", "x">>)
SuperEmailUpper == Chars(<<"S", "@", "x">>)
AdminEmail == Chars(<<"a", "@", "x">>)
UserEmail == Chars(<<"u", "@", "x">>)
TargetEmail == Chars(<<"t", "@", "x">>)
TargetEmailUpper == Chars(<<"T", "@", "x">>)
GhostEmail == Chars(<<"g", "@", "x">>)

\* The invocations of the handler, each with its own locals, connection and
\* transaction.
Instances == 1 .. MaxCalls

Columns ==
    {"name", "phone_number", "student_class", "amount", "sub_exp_date",
     "payment_time", "updated_by", "role", "payment_status", "updated_time"}

\* A row of students as registration leaves it, with a role and an expiry.
Row(role, exp) ==
    [name |-> <<"n0">>, phone_number |-> <<"p0">>, student_class |-> <<"c0">>,
     amount |-> <<>>, sub_exp_date |-> exp, payment_time |-> <<>>,
     updated_by |-> <<"u0">>, role |-> role, payment_status |-> <<"UNPAID">>,
     updated_time |-> <<>>]

\* The students table: stored emails are lowercase (registration lowercases
\* them); GhostEmail has no row.
Table(exp) ==
    (SuperEmail :> Row(<<"super">>, <<>>))
    @@ (AdminEmail :> Row(<<"admin">>, <<>>))
    @@ (UserEmail :> Row(<<"student">>, <<>>))
    @@ (TargetEmail :> Row(<<>>, exp))

\* ------------------------------------------------------------------- state
VARIABLES
    build,      \* which copy of the handler is deployed: "main" or "legacy"
    student_quizzes,  \* the committed student_quizzes table: email -> names
    clock,      \* the current date, time.Now() and the store's NOW()
    students,   \* the committed students table: email -> row
    inv,        \* per invocation: the handler's position and locals
    tx,         \* per invocation: its transaction and pending write
    hist        \* per invocation: what it was sent and has done so far

vars == <<build, student_quizzes, clock, students, inv, tx, hist>>

\* The last four fields are those of the read handlers: the query string
\* parameters, what checkStudentPayment returned (<<>> while not called),
\* student.PaymentStatus and the unattempted list.
IdleInv ==
    [pc |-> "idle", userEmail |-> <<>>, userRole |-> "", req |-> <<>>,
     normalizedEmail |-> <<>>, existing |-> <<>>, today |-> <<>>,
     updateFields |-> <<>>, params |-> <<>>, paramIndex |-> 0,
     rowsAffected |-> 0, err |-> "", resp |-> 0,
     query |-> <<>>, paid |-> <<>>, paymentStatus |-> "", unattempted |-> {}]

NoTx == [status |-> "none", rows |-> {}, set |-> <<>>]

\* cred: the bearer credential the request carried ("missing" when absent
\* or not verifiable, else "valid"); gate: the role gate's verdict; snap: the
\* table when updateStudent was entered; called: updateStudent was entered;
\* executed: an UPDATE was run; fault: the infrastructure call that failed,
\* if one did; after: the invocations that had returned when a read handler
\* read the store.
NoHist ==
    [cred |-> "none", gate |-> "none", snap |-> <<>>, called |-> FALSE,
     executed |-> FALSE, fault |-> "none", after |-> {}]

InitWith(builds, clocks, expiries) ==
    /\ build \in builds
    /\ clock \in clocks
    /\ students \in {Table(e) : e \in expiries}
    /\ student_quizzes = <<>>
    /\ inv = [i \in Instances |-> IdleInv]
    /\ tx = [i \in Instances |-> NoTx]
    /\ hist = [i \in Instances |-> NoHist]

\* createErrorResponse / createSuccessResponse: the handler returns.
Respond(i, status, more) ==
    inv' = [inv EXCEPT ![i] = [f \in DOMAIN @ |->
                IF f = "pc" THEN "done"
                ELSE IF f = "resp" THEN status
                ELSE IF f \in DOMAIN more THEN more[f] ELSE @[f]]]

\* The handler moves on to `pc`, its locals updated by `more`.
Goto(i, pc, more) ==
    inv' = [inv EXCEPT ![i] = [f \in DOMAIN @ |->
                IF f = "pc" THEN pc
                ELSE IF f \in DOMAIN more THEN more[f] ELSE @[f]]]

Note(i, more) ==
    hist' = [hist EXCEPT ![i] = [f \in DOMAIN @ |->
                IF f \in DOMAIN more THEN more[f] ELSE @[f]]]

Nothing == [x \in {} |-> 0]

\* ---------------------------------------------------------------- requests
\* A request body: the JSON object's fields, each optional one absent,
\* empty or set.
Amounts == -MaxAmount .. MaxAmount

Body(email, name, phone, class, amount, by, status) ==
    [email |-> email, name |-> name, phoneNumber |-> phone,
     studentClass |-> class, amount |-> amount, updatedBy |-> by,
     paymentStatus |-> status]

TargetEmails == {TargetEmail, TargetEmailUpper, GhostEmail}

\* Bodies sent to the amount-driven handler.
MainBodies ==
    {Body(e, n, p, c, a, u, <<>>) :
        e \in TargetEmails, n \in Opt({"", "n1"}), p \in Opt({"", "p1"}),
        c \in Opt({"", "c1"}), a \in Opt(Amounts), u \in Opt({"", "u1"})}
    \cup {Body(<<>>, <<"n1">>, <<>>, <<>>, <<>>, <<>>, <<>>)}

\* Bodies sent to the payment-status handler.
LegacyBodies ==
    {Body(e, n, p, c, <<>>, <<>>, s) :
        e \in TargetEmails, n \in Opt({"", "n1"}), p \in Opt({"", "p1"}),
        c \in Opt({"", "c1"}), s \in Opt({"", "PAID"})}
    \cup {Body(<<>>, <<"n1">>, <<>>, <<>>, <<>>, <<>>, <<>>)}

\* json.Unmarshal into the build's StudentUpdateRequest: a field the struct
\* does not declare is dropped.
Decode(b, body) ==
    IF b = "main"
    THEN [body EXCEPT !.paymentStatus = <<>>]
    ELSE [body EXCEPT !.amount = <<>>, !.updatedBy = <<>>]

\* The bearer credential as verifyFirebaseToken sees it: <<>> when it is
\* missing or does not verify, else the verified email claim.
Tokens ==
    Opt({SuperEmail, SuperEmailUpper, AdminEmail, UserEmail, TargetEmail,
         GhostEmail})

\* ------------------------------------------------------------ the planner
\* updateFields, params and paramIndex as updateStudent builds them.  A
\* fragment is "col = $arg" (kind "param"), "col = NOW()" (kind "now") or
\* "col = DATE '<arg>' + INTERVAL '1 year'" (kind "date+1y").
NewPlan(email) == [updateFields |-> <<>>, params |-> <<email>>, paramIndex |-> 2]

AddParam(p, col, val) ==
    [updateFields |->
        Append(p.updateFields, [col |-> col, kind |-> "param", arg |-> p.paramIndex]),
     params |-> Append(p.params, val),
     paramIndex |-> p.paramIndex + 1]

AddExpr(p, col, kind, arg) ==
    [p EXCEPT !.updateFields =
        Append(@, [col |-> col, kind |-> kind, arg |-> arg])]

\* RenewalBase always starting from today, whatever validity remains.
RenewalBaseToday(existing, today) == today

\* RenewalBase with the operands of >= swapped.
RenewalBaseSwapped(existing, today) ==
    IF existing # <<>> /\ StrGE(today, existing[1]) THEN existing[1] ELSE today

\* The text spliced into DATE '...' for the new sub_exp_date: the existing
\* expiry when it is valid and, as a string, >= today; otherwise today.
RenewalBase(existing, today) ==
    IF existing # <<>> /\ StrGE(existing[1], today) THEN existing[1] ELSE today

\* PlanAmount with the updated_by block moved out of the amount > 0 branch.
PlanAmountActorOutside(p, student, existing, today) ==
    IF student.amount = <<>> THEN p
    ELSE LET a == AddParam(p, "amount", student.amount[1])
             x == IF student.amount[1] > 0
                  THEN AddExpr(AddExpr(a, "payment_time", "now", 0),
                               "sub_exp_date", "date+1y",
                               RenewalBase(existing, today))
                  ELSE a
         IN  IF NonEmpty(student.updatedBy)
             THEN AddParam(x, "updated_by", student.updatedBy[1])
             ELSE x

\* PlanAmount with the updated_by test reduced to `!= nil`.
PlanAmountAnyActor(p, student, existing, today) ==
    IF student.amount = <<>> THEN p
    ELSE LET a == AddParam(p, "amount", student.amount[1])
         IN  IF student.amount[1] > 0
             THEN LET t == AddExpr(a, "payment_time", "now", 0)
                      x == AddExpr(t, "sub_exp_date", "date+1y",
                                   RenewalBase(existing, today))
                  IN  IF student.updatedBy # <<>>
                      THEN AddParam(x, "updated_by", student.updatedBy[1])
                      ELSE x
             ELSE a

\* The amount branch of the planner.
PlanAmount(p, student, existing, today) ==
    IF student.amount = <<>> THEN p
    ELSE LET a == AddParam(p, "amount", student.amount[1])
         IN  IF student.amount[1] > 0
             THEN LET t == AddExpr(a, "payment_time", "now", 0)
                      x == AddExpr(t, "sub_exp_date", "date+1y",
                                   RenewalBase(existing, today))
                  IN  IF NonEmpty(student.updatedBy)
                      THEN AddParam(x, "updated_by", student.updatedBy[1])
                      ELSE x
             ELSE a

\* A string field of the amount-driven planner: written when present and
\* non-empty.
PlanString(p, col, field) ==
    IF NonEmpty(field) THEN AddParam(p, col, field[1]) ELSE p

PlanMain(student, existing, today) ==
    LET p0 == NewPlan(ToLower(student.email))
        p1 == PlanString(p0, "name", student.name)
        p2 == PlanString(p1, "phone_number", student.phoneNumber)
        p3 == PlanString(p2, "student_class", student.studentClass)
    IN  PlanAmount(p3, student, existing, today)

\* A string field of the payment-status planner: written when present.
PlanStringLegacy(p, col, field) ==
    IF field # <<>> THEN AddParam(p, col, field[1]) ELSE p

PlanLegacy(student) ==
    LET p0 == NewPlan(student.email)
        p1 == PlanStringLegacy(p0, "phone_number", student.phoneNumber)
        p2 == PlanStringLegacy(p1, "name", student.name)
        p3 == PlanStringLegacy(p2, "student_class", student.studentClass)
        p4 == PlanStringLegacy(p3, "payment_status", student.paymentStatus)
    IN  AddExpr(p4, "updated_time", "now", 0)

\* `len(updateFields) == 0` of main.go, `== 1` of the payment-status copy.
NoFields(b, p) ==
    IF b = "main" THEN Len(p.updateFields) = 0 ELSE Len(p.updateFields) = 1

\* ---------------------------------------------------------------- the store
\* Matched for an UPDATE without its WHERE clause.
MatchedNoWhere(b, table, key) == DOMAIN table

\* WHERE LOWER(email) = $1 of main.go, WHERE email = $1 of the
\* payment-status copy.
Matched(b, table, key) ==
    IF b = "main"
    THEN {e \in DOMAIN table : ToLower(e) = key}
    ELSE {e \in DOMAIN table : e = key}

\* The value one SET fragment gives its column.
Eval(frag, params, now) ==
    CASE frag.kind = "param" -> <<params[frag.arg]>>
      [] frag.kind = "now" -> <<now>>
      [] frag.kind = "date+1y" -> <<AddYear(ParseDate(frag.arg))>>

\* The SET list as column -> value.
Assignments(fields, params, now) ==
    [c \in {fields[k].col : k \in 1..Len(fields)} |->
        LET k == CHOOSE j \in 1..Len(fields) : fields[j].col = c
        IN  Eval(fields[k], params, now)]

\* Updated writing one column of the SET list only.
UpdatedOneColumn(row, set) ==
    [c \in DOMAIN row |->
        IF c \in DOMAIN set /\ c = (CHOOSE x \in DOMAIN set : TRUE)
        THEN set[c] ELSE row[c]]

\* Updated with the new expiry taken from the row being written
\* (sub_exp_date = sub_exp_date + INTERVAL '1 year') where it has one.
UpdatedStacking(row, set) ==
    [c \in DOMAIN row |->
        IF c \notin DOMAIN set THEN row[c]
        ELSE IF c = "sub_exp_date" /\ row[c] # <<>> THEN <<AddYear(row[c][1])>>
        ELSE set[c]]

\* One row after the UPDATE.
Updated(row, set) ==
    [c \in DOMAIN row |-> IF c \in DOMAIN set THEN set[c] ELSE row[c]]

\* RowCount counting only the rows whose stored values the UPDATE changes.
RowCountChanged(table, rows, set) ==
    Cardinality({e \in rows : Updated(table[e], set) # table[e]})

\* The count result.RowsAffected reports: the rows the WHERE clause matched,
\* whether or not the SET list changes their values.
RowCount(table, rows, set) == Cardinality(rows)

\* The table after a transaction's pending write is committed.
Committed(table, rows, set) ==
    [e \in DOMAIN table |->
        IF e \in rows THEN Updated(table[e], set) ELSE table[e]]

\* -------------------------------------------------------------- the handler
\* getUserRole: the role stored for an email, "" for a NULL role; Scan fails
\* with sql.ErrNoRows when no row matches.
GetUserRole(table, email) ==
    LET rows == {e \in DOMAIN table : ToLower(e) = ToLower(email)}
    IN  IF rows = {} THEN [err |-> "norows", role |-> ""]
        ELSE LET r == table[CHOOSE e \in rows : TRUE].role
             IN  [err |-> "", role |-> IF r = <<>> THEN "" ELSE r[1]]

\* Forbidden with the subscription check dropped: admin may send an amount.
ForbiddenProfileOnly(userRole, isSubscriptionUpdate) ==
    userRole # "admin" /\ userRole # "super"

\* The role gate's two checks: TRUE when the request is turned away.
Forbidden(userRole, isSubscriptionUpdate) ==
    \/ isSubscriptionUpdate /\ userRole # "super"
    \/ ~isSubscriptionUpdate /\ userRole # "admin" /\ userRole # "super"

\* handleStudentUpdate begins: the token is verified ("main" only).
Start(i, tok) ==
    /\ inv[i].pc = "idle"
    /\ IF build = "main" /\ tok = <<>>
       THEN Respond(i, 401, Nothing)
       ELSE Goto(i, "parse",
                 [userEmail |-> IF build = "main" THEN tok[1] ELSE <<>>])
    /\ Note(i, [cred |-> IF tok = <<>> THEN "missing" ELSE "valid"])
    /\ UNCHANGED <<build, student_quizzes, clock, students, tx>>

\* json.Unmarshal of the body and the check of the email field.
Unmarshal(i, wellFormed, body) ==
    /\ inv[i].pc = "parse"
    /\ IF ~wellFormed \/ Decode(build, body).email = <<>>
       THEN Respond(i, 400, Nothing)
       ELSE Goto(i, IF build = "main" THEN "role" ELSE "begin",
                 [req |-> Decode(build, body)])
    /\ UNCHANGED <<build, student_quizzes, clock, students, tx, hist>>

\* RoleGate with the two `return`s of the permission checks missing: a
\* refused request goes on to updateStudent.
RoleGateNoReturn(i, fault) ==
    /\ inv[i].pc = "role"
    /\ LET got == GetUserRole(students, inv[i].userEmail)
           isSubscriptionUpdate == inv[i].req.amount # <<>>
       IN  IF fault # "none" \/ got.err # ""
           THEN /\ Respond(i, 500, Nothing)
                /\ Note(i, [fault |-> fault])
           ELSE /\ Goto(i, "read", [userRole |-> got.role])
                /\ Note(i, [gate |-> IF Forbidden(got.role, isSubscriptionUpdate)
                                     THEN "deny" ELSE "allow"])
    /\ UNCHANGED <<build, student_quizzes, clock, students, tx>>

\* connectDB, getUserRole and the role gate.  fault: "none", "connect"
\* (connectDB fails) or "query" (the role query fails).
RoleGate(i, fault) ==
    /\ inv[i].pc = "role"
    /\ LET got == GetUserRole(students, inv[i].userEmail)
           isSubscriptionUpdate == inv[i].req.amount # <<>>
       IN  IF fault # "none" \/ got.err # ""
           THEN /\ Respond(i, 500, Nothing)
                /\ Note(i, [fault |-> fault])
           ELSE IF Forbidden(got.role, isSubscriptionUpdate)
           THEN /\ Respond(i, 403, [userRole |-> got.role])
                /\ Note(i, [gate |-> "deny"])
           ELSE /\ Goto(i, "read", [userRole |-> got.role])
                /\ Note(i, [gate |-> "allow"])
    /\ UNCHANGED <<build, student_quizzes, clock, students, tx>>

\* ------------------------------------------------------------ updateStudent
\* updateStudent returns an error: the handler answers 500.
Fail(i, err, fault) ==
    /\ Respond(i, 500, [err |-> err])
    /\ Note(i, [fault |-> fault, called |-> TRUE,
                snap |-> IF hist[i].called THEN hist[i].snap ELSE students])

\* updateStudent of main.go begins: the email is lowercased, the existing
\* sub_exp_date is read and today's date is formatted.
ReadExisting(i, fault, style) ==
    /\ inv[i].pc = "read"
    /\ LET key == ToLower(inv[i].req.email)
           rows == {e \in DOMAIN students : ToLower(e) = key}
       IN  IF fault # "none" \/ rows = {}
           THEN Fail(i, "fetch", fault)
           ELSE LET exp == students[CHOOSE e \in rows : TRUE].sub_exp_date
                IN  /\ Goto(i, "begin",
                            [normalizedEmail |-> key,
                             existing |-> IF exp = <<>> THEN <<>>
                                          ELSE <<ScanText(exp[1], style)>>,
                             today |-> FormatDate(clock)])
                    /\ Note(i, [called |-> TRUE, snap |-> students])
    /\ UNCHANGED <<build, student_quizzes, clock, students, tx>>

\* The plan of the deployed copy.
Plan(i) ==
    IF build = "main"
    THEN PlanMain(inv[i].req, inv[i].existing, inv[i].today)
    ELSE PlanLegacy(inv[i].req)

\* db.Begin, the planner and the no-fields check (in the payment-status
\* copy updateStudent begins here, after connectDB).  fault: "none",
\* "connect" or "begin".
BeginAndPlan(i, fault) ==
    /\ inv[i].pc = "begin"
    /\ fault = "connect" => build = "legacy"
    /\ IF fault = "connect"
       THEN /\ Respond(i, 500, Nothing)
            /\ Note(i, [fault |-> fault])
            /\ UNCHANGED tx
       ELSE IF fault # "none"
       THEN /\ Fail(i, "begin", fault)
            /\ UNCHANGED tx
       ELSE IF NoFields(build, Plan(i))
       THEN /\ Fail(i, "nofields", "none")
            /\ tx' = [tx EXCEPT ![i].status = "rolledback"]
       ELSE /\ Goto(i, "exec", Plan(i))
            /\ Note(i, [called |-> TRUE,
                        snap |-> IF hist[i].called THEN hist[i].snap
                                 ELSE students])
            /\ tx' = [tx EXCEPT ![i].status = "open"]
    /\ UNCHANGED <<build, student_quizzes, clock, students>>

\* tx.Exec of the UPDATE: the matched rows are written inside the
\* transaction (and stay locked until it ends).
Exec(i, fault) ==
    /\ inv[i].pc = "exec"
    /\ LET rows == Matched(build, students, inv[i].params[1])
           set == Assignments(inv[i].updateFields, inv[i].params, clock)
       IN  IF fault # "none"
           THEN /\ Fail(i, "exec", fault)
                /\ tx' = [tx EXCEPT ![i].status = "rolledback"]
           ELSE /\ \A j \in Instances \ {i} :
                       tx[j].status = "open" => tx[j].rows \cap rows = {}
                /\ Goto(i, "commit",
                        [rowsAffected |-> RowCount(students, rows, set)])
                /\ Note(i, [executed |-> TRUE])
                /\ tx' = [tx EXCEPT ![i] =
                            [status |-> "open", rows |-> rows, set |-> set]]
    /\ UNCHANGED <<build, student_quizzes, clock, students>>

\* tx.Commit: the pending write becomes the table's state, or is dropped.
Commit(i, fault) ==
    /\ inv[i].pc = "commit"
    /\ IF fault # "none"
       THEN /\ Fail(i, "commit", fault)
            /\ tx' = [tx EXCEPT ![i] = [NoTx EXCEPT !.status = "rolledback"]]
            /\ UNCHANGED students
       ELSE /\ Goto(i, "rows", Nothing)
            /\ students' = Committed(students, tx[i].rows, tx[i].set)
            /\ tx' = [tx EXCEPT ![i].status = "committed"]
            /\ UNCHANGED hist
    /\ UNCHANGED <<build, student_quizzes, clock>>

\* result.RowsAffected and the handler's answer: 404 for no row, else 200.
RowsAffected(i, fault) ==
    /\ inv[i].pc = "rows"
    /\ IF fault # "none"
       THEN Fail(i, "rows", fault)
       ELSE /\ Respond(i, IF inv[i].rowsAffected = 0 THEN 404 ELSE 200, Nothing)
            /\ UNCHANGED hist
    /\ UNCHANGED <<build, student_quizzes, clock, students, tx>>

\* ------------------------------------------------------- the read handlers
\* allowedEmails: the callers handleGetStudent serves.
AllowedEmails == {SuperEmail, AdminEmail}

\* dateFilteredCategories: the categories whose quiz names begin with
\* "<category>-<month>-<day>-".
DateFilteredCategories == {"dated"}

\* quiz_questions: the quizzes on offer.  `day` is the <<month, day>> that
\* follows the category in the name of a quiz of a date-filtered category.
QuizQuestions ==
    {[quiz_name |-> "q1", category |-> "plain", day |-> <<>>],
     [quiz_name |-> "q2", category |-> "plain", day |-> <<>>],
     [quiz_name |-> "q3", category |-> "dated", day |-> <<6, 1>>],
     [quiz_name |-> "q4", category |-> "dated", day |-> <<10, 15>>]}

\* CheckStudentPayment with > in place of >=.
CheckStudentPaymentStrict(table, email, now, fault, style) ==
    LET rows == {e \in DOMAIN table : ToLower(e) = ToLower(email)}
    IN  IF fault # "none" \/ rows = {} THEN FALSE
        ELSE LET subExpDate == table[CHOOSE e \in rows : TRUE].sub_exp_date
             IN  /\ subExpDate # <<>>
                 /\ StrLess(FormatDate(now), ScanText(subExpDate[1], style))

\* checkStudentPayment: false when the query fails or finds no row, else
\* whether the expiry is set and, as a string, >= today.
CheckStudentPayment(table, email, now, fault, style) ==
    LET rows == {e \in DOMAIN table : ToLower(e) = ToLower(email)}
    IN  IF fault # "none" \/ rows = {} THEN FALSE
        ELSE LET subExpDate == table[CHOOSE e \in rows : TRUE].sub_exp_date
             IN  /\ subExpDate # <<>>
                 /\ StrGE(ScanText(subExpDate[1], style), FormatDate(now))

\* student.PaymentStatus as handleGetStudent sets it.
PaymentStatus(subExpDate, now, style) ==
    IF subExpDate = <<>>
       \/ StrLess(ScanText(subExpDate[1], style), FormatDate(now))
    THEN "UNPAID" ELSE "PAID"

\* The invocations that have returned.
Returned == {j \in Instances : inv[j].pc = "done"}

\* handleGetStudent.  user: getUserEmail(), <<>> for "".  fault: "none" or
\* "query".
GetStudent(i, user, email, fault, style) ==
    /\ inv[i].pc = "idle"
    /\ LET rows == {e \in DOMAIN students : ToLower(e) = ToLower(email)}
           q == [query |-> [email |-> email], userEmail |-> user,
                 today |-> FormatDate(clock)]
       IN  IF email = <<>>
           THEN Respond(i, 400, q)
           ELSE IF user # <<>> /\ ToLower(user[1]) \notin AllowedEmails
           THEN Respond(i, 403, q)
           ELSE IF fault # "none"
           THEN Respond(i, 500, q)
           ELSE IF rows = {}
           THEN Respond(i, 404, q)
           ELSE Respond(i, 200,
                        q @@ [paymentStatus |->
                                PaymentStatus(
                                    students[CHOOSE e \in rows : TRUE].sub_exp_date,
                                    clock, style)])
    /\ Note(i, [snap |-> students, after |-> Returned, fault |-> fault])
    /\ UNCHANGED <<build, student_quizzes, clock, students, tx>>

\* The names stored as attempted for an email, in any letter case.
Attempted(table, email) ==
    UNION {table[e] : e \in {k \in DOMAIN table : ToLower(k) = ToLower(email)}}

\* The quiz names handleGetUnattemptedQuizzes selects for a category.
QuizNames(category, now) ==
    {q.quiz_name : q \in
        {r \in QuizQuestions :
            /\ r.category = category
            /\ category \in DateFilteredCategories => r.day = <<now.m, now.d>>}}

\* handleGetUnattemptedQuizzes.  fault: "none", "payment" (the query of
\* checkStudentPayment fails) or "query" (a later query fails).
GetUnattemptedQuizzes(i, user, category, email, fault, style) ==
    /\ inv[i].pc = "idle"
    /\ LET paid == CheckStudentPayment(students, ToLower(email), clock,
                                       IF fault = "payment" THEN fault ELSE "none",
                                       style)
           q == [query |-> [email |-> email, category |-> category],
                 userEmail |-> user, today |-> FormatDate(clock)]
       IN  IF category = "" \/ email = <<>>
           THEN Respond(i, 400, q)
           ELSE IF user # <<>> /\ ToLower(user[1]) # ToLower(email)
           THEN Respond(i, 403, q)
           ELSE IF ~paid
           THEN Respond(i, 400, q @@ [paid |-> <<FALSE>>])
           ELSE IF fault = "query"
           THEN Respond(i, 500, q @@ [paid |-> <<TRUE>>])
           ELSE Respond(i, 200,
                        q @@ [paid |-> <<TRUE>>,
                              unattempted |->
                                QuizNames(category, clock)
                                \ Attempted(student_quizzes, email)])
    /\ Note(i, [snap |-> students, after |-> Returned, fault |-> fault])
    /\ UNCHANGED <<build, student_quizzes, clock, students, tx>>

\* Upserted with the stored names replaced by the new one.
UpsertedReplacing(table, key, quizName) == {quizName}

\* quiz_names after INSERT ... ON CONFLICT (email) DO UPDATE: the distinct
\* names of the stored array with the new name appended.
Upserted(table, key, quizName) ==
    IF key \in DOMAIN table THEN table[key] \cup {quizName} ELSE {quizName}

\* handleGetQuizByName up to db.Begin.  fault: "none", "payment", "query"
\* (the quiz query fails), "json" (the stored questions do not decode) or
\* "begin".
QuizBegin(i, user, email, quizName, fault, style) ==
    /\ inv[i].pc = "idle"
    /\ LET paid == CheckStudentPayment(students, ToLower(email), clock,
                                       IF fault = "payment" THEN fault ELSE "none",
                                       style)
           q == [query |-> [email |-> email, quizName |-> quizName],
                 userEmail |-> user, today |-> FormatDate(clock)]
           p == q @@ [paid |-> <<TRUE>>]
       IN  IF email = <<>> \/ quizName = ""
           THEN Respond(i, 400, q) /\ UNCHANGED tx
           ELSE IF user # <<>> /\ ToLower(user[1]) # ToLower(email)
           THEN Respond(i, 403, q) /\ UNCHANGED tx
           ELSE IF ~paid
           THEN Respond(i, 400, q @@ [paid |-> <<FALSE>>]) /\ UNCHANGED tx
           ELSE IF fault = "query"
                   \/ quizName \notin {r.quiz_name : r \in QuizQuestions}
           THEN Respond(i, 404, p) /\ UNCHANGED tx
           ELSE IF fault \in {"json", "begin"}
           THEN Respond(i, 500, p) /\ UNCHANGED tx
           ELSE /\ Goto(i, "qexec", p)
                /\ tx' = [tx EXCEPT ![i].status = "qopen"]
    /\ Note(i, [snap |-> students, after |-> Returned, fault |-> fault])
    /\ UNCHANGED <<build, student_quizzes, clock, students>>

\* tx.Exec of the upsert: the row of the lowercased email is written inside
\* the transaction (and stays locked until it ends).
QuizExec(i, fault) ==
    /\ inv[i].pc = "qexec"
    /\ LET key == ToLower(inv[i].query.email)
       IN  IF fault # "none"
           THEN /\ Respond(i, 500, Nothing)
                /\ Note(i, [fault |-> fault])
                /\ tx' = [tx EXCEPT ![i].status = "rolledback"]
           ELSE /\ \A j \in Instances \ {i} :
                       tx[j].status = "qopen" => key \notin tx[j].rows
                /\ Goto(i, "qcommit", Nothing)
                /\ Note(i, [executed |-> TRUE])
                /\ tx' = [tx EXCEPT ![i] =
                            [status |-> "qopen", rows |-> {key},
                             set |-> Upserted(student_quizzes, key,
                                              inv[i].query.quizName)]]
    /\ UNCHANGED <<build, student_quizzes, clock, students>>

\* tx.Commit of the upsert and the handler's answer.
QuizCommit(i, fault) ==
    /\ inv[i].pc = "qcommit"
    /\ IF fault # "none"
       THEN /\ Respond(i, 500, Nothing)
            /\ Note(i, [fault |-> fault])
            /\ tx' = [tx EXCEPT ![i] = [NoTx EXCEPT !.status = "rolledback"]]
            /\ UNCHANGED student_quizzes
       ELSE /\ Respond(i, 200, Nothing)
            /\ student_quizzes' =
                  [e \in DOMAIN student_quizzes \cup tx[i].rows |->
                      IF e \in tx[i].rows THEN tx[i].set
                      ELSE student_quizzes[e]]
            /\ tx' = [tx EXCEPT ![i].status = "committed"]
            /\ UNCHANGED hist
    /\ UNCHANGED <<build, clock, students>>

\* Time passes between invocations: the date moves on to a later one.  An
\* invocation is served within one date.
Tick ==
    /\ \A i \in Instances : inv[i].pc \in {"idle", "done"}
    /\ clock' \in {dt \in Dates :
                      dt # clock /\ DateLE(clock, dt) /\ dt.y <= 2024 + YearSpan}
    /\ UNCHANGED <<build, student_quizzes, students, inv, tx, hist>>

\* ----------------------------------------------------------- specifications
Faults(S) == {"none"} \cup S

\* One Lambda instance serves one update request, of any shape.
Next ==
    \E i \in {1} :
        \/ \E tok \in Tokens : Start(i, tok)
        \/ /\ inv[i].pc = "parse"
           /\ \E ok \in BOOLEAN :
                 \E body \in IF build = "main" THEN MainBodies ELSE LegacyBodies :
                    Unmarshal(i, ok, body)
        \/ \E f \in Faults({"connect", "query"}) : RoleGate(i, f)
        \/ \E f \in Faults({"query"}), st \in ScanStyles : ReadExisting(i, f, st)
        \/ \E f \in Faults({"connect", "begin"}) : BeginAndPlan(i, f)
        \/ \E f \in Faults({"exec"}) : Exec(i, f)
        \/ \E f \in Faults({"commit"}) : Commit(i, f)
        \/ \E f \in Faults({"rows"}) : RowsAffected(i, f)

Today0 == [y |-> 2024, m |-> 6, d |-> 1]

Init ==
    InitWith({"main", "legacy"}, {Today0},
             Opt({dt \in Dates : dt.m = 6 /\ dt.d = 1}))

Spec == Init /\ [][Next]_vars

\* One super-role caller renews the target's subscription, today and the
\* stored expiry ranging over every modelled date; no call fails.
NextRenew ==
    \E i \in {1} :
        \/ Start(i, <<SuperEmail>>)
        \/ \E a \in 1..MaxAmount :
              Unmarshal(i, TRUE,
                        Body(TargetEmail, <<>>, <<>>, <<>>, <<a>>, <<>>, <<>>))
        \/ RoleGate(i, "none")
        \/ \E st \in ScanStyles : ReadExisting(i, "none", st)
        \/ BeginAndPlan(i, "none")
        \/ Exec(i, "none")
        \/ Commit(i, "none")
        \/ RowsAffected(i, "none")

InitRenew == InitWith({"main"}, Dates, Opt(Dates))

SpecRenew == InitRenew /\ [][NextRenew]_vars

\* A renewal of the target's subscription sent by the super caller.
RenewalBodies ==
    {Body(TargetEmail, <<>>, <<>>, <<>>, <<a>>, <<>>, <<>>) : a \in 1..MaxAmount}

\* One step of invocation i serving a renewal, no call failing.
RenewStep(i) ==
    \/ Start(i, <<SuperEmail>>)
    \/ \E body \in RenewalBodies : Unmarshal(i, TRUE, body)
    \/ RoleGate(i, "none")
    \/ \E st \in ScanStyles : ReadExisting(i, "none", st)
    \/ BeginAndPlan(i, "none")
    \/ Exec(i, "none")
    \/ Commit(i, "none")
    \/ RowsAffected(i, "none")

\* Two invocations serve renewals of the same student at the same time,
\* their steps interleaved in every order the row lock allows.
Racers == {1, 2}

NextRace == \E i \in Racers : RenewStep(i)

InitRace ==
    InitWith({"main"}, {Today0}, Opt({dt \in Dates : dt.m = 6 /\ dt.d = 1}))

SpecRace == InitRace /\ [][NextRace]_vars

\* Invocations served one after another: invocation i begins when
\* invocation i - 1 has returned.
InTurn(i) == IF i = 1 THEN TRUE ELSE inv[i - 1].pc = "done"

\* Renewals of one student served one after another on one date.
NextSeq == \E i \in Instances : InTurn(i) /\ RenewStep(i)

InitSeq ==
    InitWith({"main"}, {dt \in Dates : dt.y = 2024},
             Opt({dt \in Dates : dt.y \in {2020, 2024}}))

SpecSeq == InitSeq /\ [][NextSeq]_vars


\* Updates without an amount, as either copy of the handler accepts them.
ProfileBodies ==
    {Body(e, n, <<>>, c, <<>>, <<>>, s) :
        e \in {TargetEmail, TargetEmailUpper}, n \in Opt({"", "n1"}),
        c \in Opt({"c1"}), s \in Opt({"PAID"})}

\* One step of invocation i serving a profile update sent by the admin
\* caller, no call failing.
ProfileStep(i) ==
    \/ Start(i, <<AdminEmail>>)
    \/ /\ inv[i].pc = "parse"
       /\ \E body \in ProfileBodies : Unmarshal(i, TRUE, body)
    \/ RoleGate(i, "none")
    \/ ReadExisting(i, "none", "date")
    \/ BeginAndPlan(i, "none")
    \/ Exec(i, "none")
    \/ Commit(i, "none")
    \/ RowsAffected(i, "none")

\* Two profile updates are served in succession, time passing in between.
NextTwice ==
    \/ Tick
    \/ \E i \in {1, 2} : InTurn(i) /\ ProfileStep(i)

InitTwice == InitWith({"main", "legacy"}, {Today0}, {<<>>})

SpecTwice == InitTwice /\ [][NextTwice]_vars

\* ------------------------------------------------------------------ claims
\* The row an invocation's request addresses, by lowercased email.
Key(i) == ToLower(inv[i].req.email)

Parsed(i) == inv[i].req # <<>>

\* The invocation's UPDATE was committed and matched its target row.
Applied(i) ==
    /\ Parsed(i)
    /\ tx[i].status = "committed"
    /\ Key(i) \in tx[i].rows

\* The columns of the invocation's SET list.
PlannedCols(i) ==
    {inv[i].updateFields[k].col : k \in 1..Len(inv[i].updateFields)}

\* renew(e, t) of the claim: e + 1 year when e is set and e >= t, else
\* t + 1 year.
Renew(e, t) ==
    IF e # <<>> /\ DateLE(t, e[1]) THEN AddYear(e[1]) ELSE AddYear(t)

D(y, m, d) == [y |-> y, m |-> m, d |-> d]

\* C1: a committed positive-amount update leaves sub_exp_date at e + 1 year
\* when the expiry e it read is set and e >= today, and at today + 1 year
\* otherwise (e = 2099-01-01, t = 2024-06-01 gives 2100-01-01; e = 2020-01-01,
\* t = 2024-06-01 gives 2025-06-01).
C1_Renewal ==
    \A i \in Instances :
        (Applied(i) /\ inv[i].req.amount # <<>> /\ inv[i].req.amount[1] > 0) =>
            LET e == hist[i].snap[Key(i)].sub_exp_date
                new == students[Key(i)].sub_exp_date
            IN  /\ new = <<Renew(e, clock)>>
                /\ (e = <<D(2099, 1, 1)>> /\ clock = D(2024, 6, 1))
                      => new = <<D(2100, 1, 1)>>
                /\ (e = <<D(2020, 1, 1)>> /\ clock = D(2024, 6, 1))
                      => new = <<D(2025, 6, 1)>>

\* C1 witness: on 2024-06-01 a renewal is committed for a subscription that
\* ran to 2099-01-01, and the expiry is 2100-01-01.
C1_Witness ==
    \E i \in Instances :
        /\ Applied(i)
        /\ inv[i].req.amount # <<>> /\ inv[i].req.amount[1] > 0
        /\ clock = D(2024, 6, 1)
        /\ hist[i].snap[Key(i)].sub_exp_date = <<D(2099, 1, 1)>>
        /\ students[Key(i)].sub_exp_date = <<D(2100, 1, 1)>>

\* The role stored for the verified caller ("" for NULL or no row).
CallerHasRow(i) == ToLower(inv[i].userEmail) \in DOMAIN students

StoredRole(i) ==
    IF CallerHasRow(i) /\ students[ToLower(inv[i].userEmail)].role # <<>>
    THEN students[ToLower(inv[i].userEmail)].role[1]
    ELSE ""

HasAmount(i) == inv[i].req.amount # <<>>

\* The policy of the claim.
Allowed(role, hasAmount) ==
    IF hasAmount THEN role = "super" ELSE role \in {"admin", "super"}

\* C2: behind the role gate, a request with an amount goes through only for
\* the stored role "super" and one without an amount only for "admin" or
\* "super"; every other role, the empty one included, is answered 403 and
\* updateStudent is not entered.
C2_RoleGate ==
    \A i \in Instances :
        (build = "main" /\ Parsed(i)) =>
            /\ hist[i].gate = "allow" => Allowed(StoredRole(i), HasAmount(i))
            /\ hist[i].gate = "deny" =>
                  /\ ~Allowed(StoredRole(i), HasAmount(i))
                  /\ inv[i].resp = 403
                  /\ ~hist[i].called
            /\ hist[i].called => hist[i].gate = "allow"
            /\ inv[i].resp = 403 => hist[i].gate = "deny"
            /\ (inv[i].pc = "done" /\ CallerHasRow(i) /\ hist[i].fault = "none"
                  /\ ~Allowed(StoredRole(i), HasAmount(i)))
                  => inv[i].resp = 403
            /\ (inv[i].pc \notin {"parse", "role"} /\ CallerHasRow(i)
                  /\ hist[i].fault = "none"
                  /\ Allowed(StoredRole(i), HasAmount(i)))
                  => hist[i].gate = "allow"

\* C2 witness: an admin's request carrying an amount was answered 403.
C2_Witness ==
    \E i \in Instances :
        /\ build = "main" /\ Parsed(i)
        /\ StoredRole(i) = "admin" /\ HasAmount(i)
        /\ hist[i].gate = "deny" /\ inv[i].resp = 403

\* The request names a field that the planner of the claim would write.
HasField(i) ==
    \/ NonEmpty(inv[i].req.name)
    \/ NonEmpty(inv[i].req.phoneNumber)
    \/ NonEmpty(inv[i].req.studentClass)
    \/ NonEmpty(inv[i].req.paymentStatus)
    \/ inv[i].req.amount # <<>>

\* The request came through the handler's checks and no call failed.
Served(i) ==
    /\ inv[i].pc = "done"
    /\ Parsed(i)
    /\ build = "main" => hist[i].gate = "allow"
    /\ hist[i].fault = "none"

\* C3: an authorized update with a field to write whose target email has no
\* row is answered 404 when no call fails.
C3_MissingIs404 ==
    \A i \in Instances :
        (Served(i) /\ HasField(i) /\ Key(i) \notin DOMAIN students)
            => inv[i].resp = 404

\* C4: an update addressed to a stored email with no optional field set to
\* a non-empty value ends in "no valid fields to update", and no UPDATE is
\* run or committed.
C4_NoFieldsNoWrite ==
    \A i \in Instances :
        (Served(i) /\ ~HasField(i) /\ ~NonEmpty(inv[i].req.updatedBy)
           /\ inv[i].req.email \in DOMAIN students)
            => /\ inv[i].err = "nofields"
               /\ ~hist[i].executed
               /\ students = hist[i].snap

\* C5: "no valid fields to update" is answered 400.
C5_NoFieldsIs400 ==
    \A i \in Instances :
        (inv[i].pc = "done" /\ inv[i].err = "nofields") => inv[i].resp = 400

\* The profile columns the request sets to a non-empty value.
ProfileCols(i) ==
    {c \in {"name", "phone_number", "student_class"} :
        \/ c = "name" /\ NonEmpty(inv[i].req.name)
        \/ c = "phone_number" /\ NonEmpty(inv[i].req.phoneNumber)
        \/ c = "student_class" /\ NonEmpty(inv[i].req.studentClass)}

Planned(i) == Parsed(i) /\ inv[i].updateFields # <<>>

\* The target row still holds what it held when updateStudent was entered,
\* in the given columns.
Kept(i, cols) ==
    (hist[i].called /\ Key(i) \in DOMAIN students) =>
        \A c \in cols : students[Key(i)][c] = hist[i].snap[Key(i)][c]

\* C6: with an amount <= 0 the SET list is the amount column and the
\* non-empty profile fields only, and sub_exp_date, payment_time and
\* updated_by of the target keep their values, whatever updatedBy is.
C6_NoRenewal ==
    \A i \in Instances :
        (build = "main" /\ Parsed(i) /\ HasAmount(i)
           /\ inv[i].req.amount[1] <= 0) =>
            /\ Planned(i) => PlannedCols(i) = ProfileCols(i) \cup {"amount"}
            /\ Kept(i, {"sub_exp_date", "payment_time", "updated_by"})

\* C6 witness: a committed update with amount <= 0 and updatedBy set.
C6_Witness ==
    \E i \in Instances :
        /\ build = "main" /\ Applied(i) /\ HasAmount(i)
        /\ inv[i].req.amount[1] <= 0
        /\ NonEmpty(inv[i].req.updatedBy)
        /\ students[Key(i)].amount = inv[i].req.amount
        /\ inv[i].resp = 200

\* C7: with an amount > 0 the SET list is the non-empty profile fields,
\* amount, payment_time and sub_exp_date, and updated_by exactly when
\* updatedBy is present and non-empty; once committed the row holds the
\* amount, payment_time = now, the renewed expiry, and updatedBy or the
\* previous actor.
C7_Renewal ==
    \A i \in Instances :
        (build = "main" /\ Parsed(i) /\ HasAmount(i)
           /\ inv[i].req.amount[1] > 0) =>
            /\ Planned(i) =>
                  PlannedCols(i) =
                      ProfileCols(i)
                      \cup {"amount", "payment_time", "sub_exp_date"}
                      \cup (IF NonEmpty(inv[i].req.updatedBy)
                            THEN {"updated_by"} ELSE {})
            /\ Applied(i) =>
                  LET row == students[Key(i)]
                      old == hist[i].snap[Key(i)]
                  IN  /\ row.amount = inv[i].req.amount
                      /\ row.payment_time = <<clock>>
                      /\ row.sub_exp_date = <<Renew(old.sub_exp_date, clock)>>
                      /\ row.updated_by =
                            IF NonEmpty(inv[i].req.updatedBy)
                            THEN inv[i].req.updatedBy ELSE old.updated_by

\* C7 witness: a committed positive-amount update with an empty updatedBy.
C7_Witness ==
    \E i \in Instances :
        /\ build = "main" /\ Applied(i) /\ HasAmount(i)
        /\ inv[i].req.amount[1] > 0
        /\ inv[i].req.updatedBy = <<"">>
        /\ students[Key(i)].payment_time = <<clock>>
        /\ students[Key(i)].updated_by = <<"u0">>

\* C8: in every copy of updateStudent a committed update leaves name,
\* phone_number, student_class, updated_by and payment_status of each
\* matched row as they were unless the request's field is present and
\* non-empty.
C8_EmptyNeverWritten ==
    \A i \in Instances :
        (Parsed(i) /\ tx[i].status = "committed") =>
            \A e \in tx[i].rows :
                /\ ~NonEmpty(inv[i].req.name) =>
                      students[e].name = hist[i].snap[e].name
                /\ ~NonEmpty(inv[i].req.phoneNumber) =>
                      students[e].phone_number = hist[i].snap[e].phone_number
                /\ ~NonEmpty(inv[i].req.studentClass) =>
                      students[e].student_class = hist[i].snap[e].student_class
                /\ ~NonEmpty(inv[i].req.updatedBy) =>
                      students[e].updated_by = hist[i].snap[e].updated_by
                /\ ~NonEmpty(inv[i].req.paymentStatus) =>
                      students[e].payment_status = hist[i].snap[e].payment_status

\* C9: every change of a stored row is one transaction's whole SET list
\* applied to it: each planned column takes its planned value and every
\* other column is kept; a failing step changes nothing.
C9_Atomic ==
    [][\A e \in DOMAIN students :
          students'[e] # students[e] =>
              \E i \in Instances :
                  /\ tx[i].status = "open" /\ e \in tx[i].rows
                  /\ \A k \in 1..Len(inv[i].updateFields) :
                        students'[e][inv[i].updateFields[k].col] =
                            Eval(inv[i].updateFields[k], inv[i].params, clock)
                  /\ \A c \in Columns \ PlannedCols(i) :
                        students'[e][c] = students[e][c]]_vars

\* C9 witness: an update of three or more columns is committed and the row
\* holds every one of them.
C9_Witness ==
    \E i \in Instances :
        /\ Applied(i)
        /\ Cardinality(PlannedCols(i)) >= 3
        /\ \A k \in 1..Len(inv[i].updateFields) :
              students[Key(i)][inv[i].updateFields[k].col] =
                  Eval(inv[i].updateFields[k], inv[i].params, clock)

\* C10: whenever updateStudent returns an error the table is as it was
\* when updateStudent was entered.
C10_ErrorMeansUnchanged ==
    \A i \in Instances :
        (inv[i].pc = "done" /\ inv[i].err # "") => students = hist[i].snap

Positive(i) == HasAmount(i) /\ inv[i].req.amount[1] > 0

\* The expiry of the target that invocation i read on entering
\* updateStudent.
ReadExpiry(i) == hist[i].snap[Key(i)].sub_exp_date

\* C11: when two positive-amount updates of one student have both read the
\* same expiry e and both committed, the stored expiry is renew(e, today),
\* one year past the renewal base and not two; such a state is reached
\* with both calls answered 200.
C11_LostRenewal ==
    \A i \in Instances : \A j \in Instances \ {i} :
        (Applied(i) /\ Applied(j) /\ Positive(i) /\ Positive(j)
           /\ Key(i) = Key(j) /\ ReadExpiry(i) = ReadExpiry(j)) =>
            /\ students[Key(i)].sub_exp_date = <<Renew(ReadExpiry(i), clock)>>
            /\ students[Key(i)].sub_exp_date
                  # <<AddYear(Renew(ReadExpiry(i), clock))>>

\* C11 witness: two renewals of the target, both answered 200, both having
\* read the expiry 2024-06-01, and the stored expiry is 2025-06-01.
C11_Witness ==
    /\ Applied(1) /\ Applied(2) /\ Positive(1) /\ Positive(2)
    /\ inv[1].resp = 200 /\ inv[2].resp = 200
    /\ ReadExpiry(1) = <<D(2024, 6, 1)>> /\ ReadExpiry(2) = <<D(2024, 6, 1)>>
    /\ students[TargetEmail].sub_exp_date = <<D(2025, 6, 1)>>

\* Invocations 1 and 2 served the same update without an amount, and the
\* first was answered 200.
Resubmitted ==
    /\ Parsed(1) /\ Parsed(2)
    /\ inv[1].req = inv[2].req
    /\ ~HasAmount(1)
    /\ inv[1].resp = 200
    /\ inv[2].pc = "done"

\* The table holds in the given columns what it held when invocation 2
\* entered updateStudent, that is, after invocation 1.
SameAfterSecond(cols) ==
    /\ hist[2].called
    /\ \A e \in DOMAIN students : \A c \in cols :
          students[e][c] = hist[2].snap[e][c]

\* C12 as stated: the same update without an amount, submitted again after
\* it succeeded, is answered 200 with rowsAffected >= 1 and leaves every
\* record as the first call left it.
C12_Idempotent ==
    Resubmitted =>
        /\ inv[2].resp = 200
        /\ inv[2].rowsAffected >= 1
        /\ SameAfterSecond(Columns)

\* C12 amended: the same, for every column but updated_time, which the
\* payment-status copy sets to the time of the latest call.
C12_IdempotentButStamp ==
    Resubmitted =>
        /\ inv[2].resp = 200
        /\ inv[2].rowsAffected >= 1
        /\ SameAfterSecond(Columns \ {"updated_time"})

\* C12 witness: a name change is submitted twice, both calls are answered
\* 200 and the row holds the name.
C12_Witness ==
    /\ Resubmitted
    /\ inv[1].req.name = <<"n1">>
    /\ inv[2].resp = 200
    /\ students[TargetEmail].name = <<"n1">>

\* C13: a request whose bearer credential is missing or does not verify is
\* answered 401 and has touched the store in no way: no role lookup, no
\* entry into updateStudent, no transaction, no UPDATE, in either copy.
C13_UnauthorizedIs401 ==
    \A i \in Instances :
        (hist[i].cred = "missing" /\ inv[i].pc = "done") =>
            /\ inv[i].resp = 401
            /\ hist[i].gate = "none"
            /\ ~hist[i].called
            /\ ~hist[i].executed
            /\ tx[i].status = "none"

\* C14: a verified caller with no stored role (a NULL role, or no row at
\* all) is answered 403 by the role gate when no call fails, and the role
\* stage answers 500 only when the lookup itself could not be performed.
C14_NoRoleIs403 ==
    \A i \in Instances :
        (build = "main" /\ Parsed(i) /\ inv[i].pc = "done") =>
            /\ (hist[i].fault = "none" /\ StoredRole(i) = "") =>
                  (inv[i].resp = 403 /\ hist[i].gate = "deny")
            /\ (hist[i].gate = "none" /\ inv[i].resp = 500) =>
                  hist[i].fault \in {"connect", "query"}

\* The stored rows whose email is the given one up to letter case.
SameStudent(table, email) ==
    {e \in DOMAIN table : ToLower(e) = ToLower(email)}

\* C15: letter case of an email never matters: the role gate sees the role
\* stored for the caller's email up to case, updateStudent reads the expiry
\* of the row whose email is the target's up to case, and the UPDATE is run
\* on exactly the rows whose email is the target's up to case, in either
\* copy.
C15_CaseInsensitive ==
    \A i \in Instances :
        /\ hist[i].gate # "none" => inv[i].userRole = StoredRole(i)
        /\ (build = "main" /\ inv[i].pc \in {"begin", "exec", "commit", "rows"}) =>
              LET e == hist[i].snap[Key(i)].sub_exp_date
              IN  IF e = <<>> THEN inv[i].existing = <<>>
                  ELSE /\ inv[i].existing # <<>>
                       /\ ParseDate(inv[i].existing[1]) = e[1]
        /\ tx[i].status \in {"open", "committed"} /\ hist[i].executed =>
              tx[i].rows = SameStudent(students, inv[i].req.email)

\* C16: in the payment-status copy a committed update that sets
\* payment_status to "PAID" on a row whose status was not "PAID" also sets
\* payment_time to now; one whose row was already "PAID", or that sets
\* another status, leaves payment_time and updated_by as they were.
C16_PaidTransition ==
    \A i \in Instances :
        (build = "legacy" /\ Applied(i) /\ inv[i].req.paymentStatus # <<>>) =>
            LET row == students[Key(i)]
                old == hist[i].snap[Key(i)]
            IN  IF inv[i].req.paymentStatus = <<"PAID">>
                   /\ old.payment_status # <<"PAID">>
                THEN row.payment_time = <<clock>>
                ELSE /\ row.payment_time = old.payment_time
                     /\ row.updated_by = old.updated_by

\* The date k years on, one year at a time.
RECURSIVE AddYears(_, _)
AddYears(dt, k) == IF k = 0 THEN dt ELSE AddYears(AddYear(dt), k - 1)

\* The date k years on in one step: <date> + INTERVAL 'k years'.
PlusYears(dt, k) ==
    [y |-> dt.y + k, m |-> dt.m,
     d |-> IF dt.m = 2 /\ dt.d = 29 /\ ~Leap(dt.y + k) THEN 28 ELSE dt.d]

\* Exactly the first k invocations have committed, each a positive-amount
\* update of the target.
Renewed(k) ==
    /\ \A j \in 1..k : Applied(j) /\ Positive(j) /\ Key(j) = TargetEmail
    /\ IF k = MaxCalls THEN TRUE ELSE tx[k + 1].status # "committed"

\* The renewal base of the first invocation: the expiry e it read when
\* e >= today, else today.
FirstBase ==
    IF ReadExpiry(1) # <<>> /\ DateLE(clock, ReadExpiry(1)[1])
    THEN ReadExpiry(1)[1] ELSE clock

\* C17 as stated: after k renewals in succession on one date the expiry is
\* the first renewal's base + k years.
C17_Stacks ==
    \A k \in Instances :
        Renewed(k) =>
            students[TargetEmail].sub_exp_date = <<PlusYears(FirstBase, k)>>

\* C17 amended: after k renewals in succession on one date the expiry is
\* the first renewal's base moved on one year k times, so that a base of
\* 29 February stays on 28 February from its first renewal on.
C17_StacksYearByYear ==
    \A k \in Instances :
        Renewed(k) =>
            students[TargetEmail].sub_exp_date = <<AddYears(FirstBase, k)>>

\* C17 witness: three renewals answered 200 on 2024-06-01 of a subscription
\* that ran to 2024-10-15 leave the expiry at 2027-10-15.
C17_Witness ==
    /\ Renewed(3)
    /\ \A j \in 1..3 : inv[j].resp = 200
    /\ clock = D(2024, 6, 1)
    /\ ReadExpiry(1) = <<D(2024, 10, 15)>>
    /\ students[TargetEmail].sub_exp_date = <<D(2027, 10, 15)>>

\* The request field a column is written from.
OwnField(req, col) ==
    CASE col = "name" -> req.name
      [] col = "phone_number" -> req.phoneNumber
      [] col = "student_class" -> req.studentClass
      [] col = "amount" -> req.amount
      [] col = "updated_by" -> req.updatedBy
      [] col = "payment_status" -> req.paymentStatus
      [] OTHER -> <<>>

\* The fragments of the SET list that hold a placeholder.
Placeholders(i) ==
    {k \in 1..Len(inv[i].updateFields) : inv[i].updateFields[k].kind = "param"}

\* Every placeholder of the SET list is bound to the request field of its
\* own column, each parameter after the first is used by one placeholder,
\* and paramIndex = len(params) + 1.
BoundToOwnField(i) ==
    LET f == inv[i].updateFields
    IN  /\ \A k \in Placeholders(i) :
              /\ f[k].arg \in 2..Len(inv[i].params)
              /\ <<inv[i].params[f[k].arg]>> = OwnField(inv[i].req, f[k].col)
        /\ \A k \in Placeholders(i) : \A l \in Placeholders(i) :
              f[k].arg = f[l].arg => k = l
        /\ Cardinality(Placeholders(i)) = Len(inv[i].params) - 1
        /\ inv[i].paramIndex = Len(inv[i].params) + 1

\* C18: when the query is executed every placeholder $n of the SET list
\* is bound to the request field of its own column, the first parameter is
\* the normalized email, and paramIndex = len(params) + 1, in every copy.
C18_ValueBinding ==
    \A i \in Instances :
        Planned(i) =>
            /\ BoundToOwnField(i)
            /\ inv[i].params[1] = ToLower(inv[i].req.email)

\* C19: a committed update has changed no row but the one whose email is
\* the target's normalized email, and in that row no column outside its
\* SET list; without an amount the target's amount, sub_exp_date,
\* payment_time, updated_by and role are as they were.
C19_Frame ==
    \A i \in Instances :
        (Parsed(i) /\ tx[i].status = "committed") =>
            /\ \A e \in DOMAIN students \ {Key(i)} :
                  students[e] = hist[i].snap[e]
            /\ Kept(i, Columns \ PlannedCols(i))
            /\ ~HasAmount(i) =>
                  Kept(i, {"amount", "sub_exp_date", "payment_time",
                           "updated_by", "role"})

\* C19 witness: a name change answered 200 has changed the target's name
\* and nothing else in the table.
C19_Witness ==
    \E i \in Instances :
        /\ build = "main" /\ Applied(i) /\ inv[i].resp = 200
        /\ ~HasAmount(i)
        /\ PlannedCols(i) = {"name"}
        /\ students[Key(i)].name = <<"n1">>
        /\ students = [hist[i].snap EXCEPT ![Key(i)].name = <<"n1">>]

\* The request was answered 403, or 500 at the role lookup.
TurnedAway(i) ==
    \/ hist[i].gate = "deny"
    \/ inv[i].resp = 403
    \/ /\ build = "main" /\ Parsed(i) /\ inv[i].pc = "done"
       /\ inv[i].resp = 500 /\ hist[i].gate = "none"

\* C20: a request refused by the role gate, or whose role lookup failed,
\* has not entered updateStudent, has opened no transaction and run no
\* UPDATE, and the step that turns it away changes no student record.
C20_DeniedNeverMutates ==
    /\ [](\A i \in Instances :
            TurnedAway(i) =>
                /\ inv[i].pc = "done" /\ inv[i].resp \in {403, 500}
                /\ ~hist[i].called
                /\ ~hist[i].executed
                /\ tx[i] = NoTx)
    /\ [][\A i \in Instances :
            (inv[i].pc = "role" /\ inv'[i].pc = "done")
                => (students' = students /\ tx' = tx)]_vars

\* C20 witness: a caller whose stored role is "student" was answered 403
\* with updateStudent not entered and no transaction.
C20_Witness ==
    \E i \in Instances :
        /\ StoredRole(i) = "student"
        /\ hist[i].gate = "deny" /\ inv[i].resp = 403
        /\ ~hist[i].called /\ tx[i] = NoTx

\* ------------------------------------------------- renewal and paid status
\* Invocation 1 renews the target's subscription, invocation 2 serves
\* handleGetStudent and invocation 3 handleGetUnattemptedQuizzes, one at a
\* time in any order, on the same or on later dates.
Alone(i) == \A j \in Instances \ {i} : inv[j].pc \in {"idle", "done"}

\* The requests of handleGetStudent: served, refused (403), failing (500).
StudentReads ==
    {[user |-> <<SuperEmailUpper>>, email |-> TargetEmailUpper,
      fault |-> "none"],
     [user |-> <<UserEmail>>, email |-> TargetEmail, fault |-> "none"],
     [user |-> <<>>, email |-> TargetEmail, fault |-> "query"]}

\* The requests of handleGetUnattemptedQuizzes: served, refused (403), its
\* payment query failing.
QuizReads ==
    {[user |-> <<>>, category |-> "plain", email |-> TargetEmailUpper,
      fault |-> "none"],
     [user |-> <<UserEmail>>, category |-> "plain", email |-> TargetEmail,
      fault |-> "none"],
     [user |-> <<>>, category |-> "plain", email |-> TargetEmail,
      fault |-> "payment"]}

NextPaid ==
    \/ Tick
    \/ Alone(1) /\ RenewStep(1)
    \/ /\ Alone(2)
       /\ \E r \in StudentReads, st \in ScanStyles :
             GetStudent(2, r.user, r.email, r.fault, st)
    \/ /\ Alone(3)
       /\ \E r \in QuizReads, st \in ScanStyles :
             GetUnattemptedQuizzes(3, r.user, r.category, r.email, r.fault, st)

InitPaid ==
    InitWith({"main"}, {D(2024, 2, 29), D(2024, 6, 1)},
             Opt({D(2020, 1, 1), D(2024, 6, 1)}))

SpecPaid == InitPaid /\ [][NextPaid]_vars

\* The expiry of the student a read handler was asked about, as stored when
\* the handler ran its query.
SnapExpiry(j) == hist[j].snap[ToLower(inv[j].query.email)].sub_exp_date

\* Paid on a date: the expiry is set and not before that date.
PaidOn(exp, now) == exp # <<>> /\ DateLE(now, exp[1])

\* handleGetStudent found the student and set a payment status.
GotStatus(j) == inv[j].pc = "done" /\ inv[j].paymentStatus # ""

\* checkStudentPayment was called for a stored student and its query
\* succeeded.
GotPaid(j) ==
    /\ inv[j].pc = "done"
    /\ inv[j].paid # <<>>
    /\ hist[j].fault # "payment"
    /\ ToLower(inv[j].query.email) \in DOMAIN hist[j].snap

\* The read handler began after invocation i had committed a positive-amount
\* update of the student it asks about, no later than the expiry now stored.
ReadsRenewed(j, i) ==
    /\ i \in hist[j].after
    /\ Applied(i) /\ Positive(i)
    /\ ToLower(inv[j].query.email) = Key(i)
    /\ DateLE(ParseDate(inv[j].today), students[Key(i)].sub_exp_date[1])

\* C21: a committed positive-amount update made on date t leaves an expiry
\* strictly later than t; handleGetStudent reports "PAID", and
\* checkStudentPayment returns true, exactly when the expiry they read is
\* set and not before their date; so every read of the student that starts
\* after the update, on a date up to and including the new expiry, gives
\* "PAID" and true.
C21_PaidAfterRenewal ==
    /\ \A i \in Instances :
          (Applied(i) /\ Positive(i)) =>
             /\ students[Key(i)].sub_exp_date # <<>>
             /\ ~DateLE(students[Key(i)].sub_exp_date[1],
                        ParseDate(inv[i].today))
    /\ \A j \in Instances :
          /\ GotStatus(j) =>
                (inv[j].paymentStatus = "PAID"
                   <=> PaidOn(SnapExpiry(j), ParseDate(inv[j].today)))
          /\ GotPaid(j) =>
                (inv[j].paid = <<TRUE>>
                   <=> PaidOn(SnapExpiry(j), ParseDate(inv[j].today)))
    /\ \A i \in Instances : \A j \in Instances \ {i} :
          /\ (GotStatus(j) /\ ReadsRenewed(j, i)) =>
                inv[j].paymentStatus = "PAID"
          /\ (GotPaid(j) /\ ReadsRenewed(j, i)) => inv[j].paid = <<TRUE>>

\* After a renewal made on one date, handleGetStudent reports "PAID" on the
\* very day the new expiry falls on and checkStudentPayment returned true
\* on the day of the renewal.
C21_Witness ==
    /\ Applied(1) /\ Positive(1) /\ inv[1].resp = 200
    /\ GotStatus(2) /\ ReadsRenewed(2, 1)
    /\ ParseDate(inv[2].today) = students[Key(1)].sub_exp_date[1]
    /\ inv[2].paymentStatus = "PAID"
    /\ GotPaid(3) /\ ReadsRenewed(3, 1)
    /\ inv[3].today = inv[1].today
    /\ inv[3].paid = <<TRUE>>

\* ------------------------------------------------------ attempted quizzes
\* Invocations 1 and 2 serve handleGetQuizByName and invocation 3 serves
\* handleGetUnattemptedQuizzes; their steps interleave in every order the
\* row lock allows, and the date may move on between invocations.  Only the
\* upsert and its commit may fail.
Fetchers == {1, 2}

Lister == 3

\* The requests of handleGetQuizByName: the target student in either letter
\* case, with and without a caller, and a quiz that does not exist.
QuizFetches ==
    {[user |-> <<>>, email |-> TargetEmail, quizName |-> "q1"],
     [user |-> <<TargetEmail>>, email |-> TargetEmailUpper, quizName |-> "q2"],
     [user |-> <<>>, email |-> TargetEmailUpper, quizName |-> "q3"],
     [user |-> <<>>, email |-> TargetEmail, quizName |-> "q0"]}

\* The requests of handleGetUnattemptedQuizzes.
QuizLists ==
    {[user |-> <<>>, category |-> c, email |-> e] :
        c \in {"plain", "dated"}, e \in {TargetEmail, TargetEmailUpper}}

NextQuiz ==
    \/ Tick
    \/ \E i \in Fetchers :
          \/ /\ inv[i].pc = "idle"
             /\ \E r \in QuizFetches, st \in ScanStyles :
                   QuizBegin(i, r.user, r.email, r.quizName, "none", st)
          \/ \E f \in Faults({"exec"}) : QuizExec(i, f)
          \/ \E f \in Faults({"commit"}) : QuizCommit(i, f)
    \/ /\ inv[Lister].pc = "idle"
       /\ \E r \in QuizLists, st \in ScanStyles :
             GetUnattemptedQuizzes(Lister, r.user, r.category, r.email,
                                   "none", st)

InitQuiz == InitWith({"main"}, {Today0}, {<<D(2024, 10, 15)>>})

SpecQuiz == InitQuiz /\ [][NextQuiz]_vars

\* handleGetQuizByName answered 200.
Fetched(i) ==
    /\ inv[i].pc = "done" /\ inv[i].resp = 200
    /\ "quizName" \in DOMAIN inv[i].query

\* handleGetUnattemptedQuizzes answered 200.
Listed(j) ==
    /\ inv[j].pc = "done" /\ inv[j].resp = 200
    /\ "category" \in DOMAIN inv[j].query

\* Invocation j began after invocation i had answered, and asks about the
\* same email up to letter case.
LaterSameEmail(j, i) ==
    /\ i \in hist[j].after
    /\ ToLower(inv[j].query.email) = ToLower(inv[i].query.email)

\* C22: once handleGetQuizByName has answered 200 for an email and a quiz
\* name, the name is stored among the attempted quizzes of the lowercased
\* email, and every handleGetUnattemptedQuizzes call that begins later for
\* that email, in any letter case, answers without that name, whatever
\* fetches came in between.
C22_AttemptedStaysOut ==
    \A i \in Instances :
        Fetched(i) =>
           /\ ToLower(inv[i].query.email) \in DOMAIN student_quizzes
           /\ inv[i].query.quizName
                 \in student_quizzes[ToLower(inv[i].query.email)]
           /\ \A j \in Instances \ {i} :
                 (Listed(j) /\ LaterSameEmail(j, i)) =>
                    inv[i].query.quizName \notin inv[j].unattempted

\* q1 was fetched for the email in lower case, then q2 for it in upper
\* case, and a later list of the category for the upper-case email omits
\* both.
C22_Witness ==
    /\ Fetched(1) /\ inv[1].query.quizName = "q1"
    /\ inv[1].query.email = TargetEmail
    /\ Fetched(2) /\ inv[2].query.quizName = "q2" /\ 1 \in hist[2].after
    /\ Listed(Lister) /\ LaterSameEmail(Lister, 1)
    /\ LaterSameEmail(Lister, 2)
    /\ inv[Lister].query = [email |-> TargetEmailUpper, category |-> "plain"]
    /\ inv[Lister].unattempted = {}
====
